---- MODULE Spec2Model ----
(***************************************************************************)
(* Model of src/main.py: the helpers describe_recurrence and               *)
(* get_week_range_from_sunday, and the request handler                     *)
(* generate_timesheet_v2 as a state machine with one step per loop         *)
(* iteration (Event Classifier, Coverage Reconciler, Recurrence Applier,   *)
(* Response Assembler).                                                    *)
(*                                                                         *)
(* Dates are proleptic Gregorian ordinals as Python's date.toordinal()     *)
(* gives them: ordinal 1 is a Monday, ordinal 7 a Sunday.  Text is TLA+    *)
(* strings; the string functions the code calls (strip, lower,            *)
(* startswith, split, join, upper, slicing) are computed character by      *)
(* character.                                                              *)
(***************************************************************************)
EXTENDS Integers, Sequences, FiniteSets, TLC

(***************************************************************************)
(* Bounds of the model.                                                    *)
(***************************************************************************)
\* number of consecutive anchor dates tried, starting at ordinal 7 (a Sunday)
NumAnchors == 2
\* longest calendar (number of VEVENT components)
MaxEvents == 2
\* most tokens joined into include_recurring_uids
MaxTokens == 2
\* number of consecutive anchor dates given to get_week_range_from_sunday alone
NumWindowAnchors == 120
\* longest BYDAY list over all codes given to describe_recurrence alone
MaxByday == 2

(***************************************************************************)
(* Python string functions.                                                *)
(***************************************************************************)
Char(s, k) == SubSeq(s, k, k)

LowerOf ==
  [A |-> "a", B |-> "b", C |-> "c", D |-> "d", E |-> "e", F |-> "f", G |-> "g",
   H |-> "h", I |-> "i", J |-> "j", K |-> "k", L |-> "l", M |-> "m", N |-> "n",
   O |-> "o", P |-> "p", Q |-> "q", R |-> "r", S |-> "s", T |-> "t", U |-> "u",
   V |-> "v", W |-> "w", X |-> "x", Y |-> "y", Z |-> "z"]

UpperOf ==
  [a |-> "A", b |-> "B", c |-> "C", d |-> "D", e |-> "E", f |-> "F", g |-> "G",
   h |-> "H", i |-> "I", j |-> "J", k |-> "K", l |-> "L", m |-> "M", n |-> "N",
   o |-> "O", p |-> "P", q |-> "Q", r |-> "R", s |-> "S", t |-> "T", u |-> "U",
   v |-> "V", w |-> "W", x |-> "X", y |-> "Y", z |-> "Z"]

RECURSIVE Lower(_)
Lower(s) ==
  IF Len(s) = 0 THEN ""
  ELSE LET c == Char(s, 1)
       IN (IF c \in DOMAIN LowerOf THEN LowerOf[c] ELSE c)
            \o Lower(SubSeq(s, 2, Len(s)))

RECURSIVE Upper(_)
Upper(s) ==
  IF Len(s) = 0 THEN ""
  ELSE LET c == Char(s, 1)
       IN (IF c \in DOMAIN UpperOf THEN UpperOf[c] ELSE c)
            \o Upper(SubSeq(s, 2, Len(s)))

IsSpace(c) == c \in {" ", "\t", "\n", "\r"}

RECURSIVE LStrip(_)
LStrip(s) ==
  IF Len(s) > 0 /\ IsSpace(Char(s, 1)) THEN LStrip(SubSeq(s, 2, Len(s))) ELSE s

RECURSIVE RStrip(_)
RStrip(s) ==
  IF Len(s) > 0 /\ IsSpace(Char(s, Len(s)))
  THEN RStrip(SubSeq(s, 1, Len(s) - 1)) ELSE s

Strip(s) == RStrip(LStrip(s))

StartsWith(s, prefix) ==
  Len(s) >= Len(prefix) /\ SubSeq(s, 1, Len(prefix)) = prefix

\* least k with sep at position k of s, 0 when sep does not occur
RECURSIVE FindFrom(_, _, _)
FindFrom(s, sep, k) ==
  IF k + Len(sep) - 1 > Len(s) THEN 0
  ELSE IF SubSeq(s, k, k + Len(sep) - 1) = sep THEN k
  ELSE FindFrom(s, sep, k + 1)

\* str.split(sep): leftmost, non-overlapping; always at least one token
RECURSIVE Split(_, _)
Split(s, sep) ==
  LET k == FindFrom(s, sep, 1)
  IN IF k = 0 THEN <<s>>
     ELSE <<SubSeq(s, 1, k - 1)>> \o Split(SubSeq(s, k + Len(sep), Len(s)), sep)

\* sep.join(items)
RECURSIVE Join(_, _)
Join(items, sep) ==
  IF Len(items) = 0 THEN ""
  ELSE IF Len(items) = 1 THEN items[1]
  ELSE items[1] \o sep \o Join(Tail(items), sep)

Range(seq) == {seq[k] : k \in 1..Len(seq)}

InSeq(x, seq) == \E k \in 1..Len(seq) : seq[k] = x

(***************************************************************************)
(* Helpers of src/main.py.                                                 *)
(***************************************************************************)
\* day_map of describe_recurrence (seven entries)
day_map ==
  [MO |-> "Monday", TU |-> "Tuesday", WE |-> "Wednesday", TH |-> "Thursday",
   FR |-> "Friday", SA |-> "Saturday", SU |-> "Sunday"]

\* [day_map[d] for d in byday if d in day_map]
RECURSIVE MappedDays(_)
MappedDays(byday) ==
  IF Len(byday) = 0 THEN <<>>
  ELSE (IF Head(byday) \in DOMAIN day_map THEN <<day_map[Head(byday)]>> ELSE <<>>)
         \o MappedDays(Tail(byday))

\* faulty variant: compares the rule's BYDAY list, not the mapped day names
describe_recurrence_on_byday(rrule) ==
  LET freq == rrule.FREQ
      byday == rrule.BYDAY
      days == MappedDays(byday)
  IN IF Len(freq) > 0 /\ freq[1] = "DAILY" THEN "Occurs every day"
     ELSE IF Len(freq) > 0 /\ freq[1] = "WEEKLY" /\ Len(byday) > 0
     THEN IF byday = <<"MO", "TU", "WE", "TH", "FR">> THEN "Occurs every weekday"
          ELSE IF Len(byday) = 1 /\ Len(days) = 1 THEN "Occurs every " \o days[1]
          ELSE "Occurs every " \o Join(days, ", ")
     ELSE "Recurring meeting"

describe_recurrence(rrule) ==
  LET freq == rrule.FREQ
      byday == rrule.BYDAY
  IN IF Len(freq) > 0 /\ freq[1] = "DAILY" THEN "Occurs every day"
     ELSE IF Len(freq) > 0 /\ freq[1] = "WEEKLY" /\ Len(byday) > 0
     THEN LET days == MappedDays(byday)
          IN IF days = <<"Monday", "Tuesday", "Wednesday", "Thursday", "Friday">>
             THEN "Occurs every weekday"
             ELSE IF Len(days) = 1 THEN "Occurs every " \o days[1]
             ELSE "Occurs every " \o Join(days, ", ")
     ELSE "Recurring meeting"

\* faulty variant: the window is one day longer
get_week_range_six_days(sunday) ==
  LET monday == sunday + 1
      friday == monday + 5
  IN <<monday, friday>>

get_week_range_from_sunday(sunday) ==
  LET monday == sunday + 1
      friday == monday + 4
  IN <<monday, friday>>

\* date.strftime("%A") of an ordinal: ordinal 1 (0001-01-01) is a Monday
WeekdayNames ==
  <<"Monday", "Tuesday", "Wednesday", "Thursday", "Friday", "Saturday", "Sunday">>

StrftimeA(d) == WeekdayNames[((d + 6) % 7) + 1]

\* weekday[:2].upper() and day[:2].upper()
DayCode(name) == Upper(SubSeq(name, 1, 2))

\* utcoffset of LOCAL_TZ = pytz.timezone("Asia/Kolkata"), in minutes
LocalOffsetMinutes == 330

(***************************************************************************)
(* Calendar components as the parser hands them over.                      *)
(*   DTSTART / UNTIL / EXDATE values: kind "date" (a bare date), "naive"   *)
(*   (a date-time without tzinfo) or "aware" (a date-time with a UTC       *)
(*   offset in minutes); kind "none" is a missing DTSTART.                 *)
(*   RRULE: present = FALSE is a missing RRULE; a key of the rule that is  *)
(*   absent reads as the empty list, as rrule.get(key, []) does.           *)
(***************************************************************************)
NoStart == [kind |-> "none", day |-> 0, minute |-> 0, utcoff |-> 0]
OnDate(d) == [kind |-> "date", day |-> d, minute |-> 0, utcoff |-> 0]
Naive(d, m) == [kind |-> "naive", day |-> d, minute |-> m, utcoff |-> 0]
Aware(d, m, off) == [kind |-> "aware", day |-> d, minute |-> m, utcoff |-> off]

NoRule == [present |-> FALSE, FREQ |-> <<>>, BYDAY |-> <<>>, UNTIL |-> <<>>]
Rule(freq, byday, until) ==
  [present |-> TRUE, FREQ |-> freq, BYDAY |-> byday, UNTIL |-> until]

VEvent(summary, uid, dtstart, rrule, exdate) ==
  [SUMMARY |-> summary, UID |-> uid, DTSTART |-> dtstart, RRULE |-> rrule,
   EXDATE |-> exdate]

\* datetime.date() of a date-time, or the date itself: no zone conversion
PlainDate(v) == v.day

\* lines 160-166: the local date of DTSTART
\*   aware: astimezone(LOCAL_TZ); naive: LOCAL_TZ.localize; date: itself
EventDate(dtstart) ==
  IF dtstart.kind = "aware"
  THEN (dtstart.day * 1440 + dtstart.minute - dtstart.utcoff + LocalOffsetMinutes)
         \div 1440
  ELSE dtstart.day

\* lines 149-151 and 156-158: the component is skipped entirely
Skipped(component) ==
  LET summary == Strip(component.SUMMARY)
  IN \/ summary = ""
     \/ StartsWith(Lower(summary), "canceled")
     \/ component.DTSTART.kind = "none"

\* faulty variant: buckets the event whatever its date
ClassifyBoardAnyDate(board, component, ws, we) ==
  LET summary == Strip(component.SUMMARY)
      day_name == StrftimeA(EventDate(component.DTSTART))
  IN IF Skipped(component) THEN board
     ELSE IF day_name \in DOMAIN board /\ ~InSeq(summary, board[day_name])
     THEN [board EXCEPT ![day_name] = Append(@, summary)]
     ELSE board

\* lines 168-172: events_by_day after the component
ClassifyBoard(board, component, ws, we) ==
  LET summary == Strip(component.SUMMARY)
      event_date == EventDate(component.DTSTART)
      day_name == StrftimeA(event_date)
  IN IF Skipped(component) THEN board
     ELSE IF /\ ws <= event_date /\ event_date <= we
             /\ day_name \in DOMAIN board
             /\ ~InSeq(summary, board[day_name])
     THEN [board EXCEPT ![day_name] = Append(@, summary)]
     ELSE board

(***************************************************************************)
(* recurring_candidates: a dict in insertion order, here the sequence of   *)
(* its values; the uids are pairwise different.                            *)
(***************************************************************************)
Keys(table) == [k \in 1..Len(table) |-> table[k].uid]

\* position of uid in the table, 0 when uid is no key
Position(table, uid) ==
  IF \E k \in 1..Len(table) : table[k].uid = uid
  THEN CHOOSE k \in 1..Len(table) : table[k].uid = uid
  ELSE 0

\* faulty variant: keeps the record of a key that exists (setdefault)
PutKeepFirst(table, rec) ==
  IF Position(table, rec.uid) = 0 THEN Append(table, rec) ELSE table

\* table[rec.uid] = rec : an existing key keeps its place
Put(table, rec) ==
  LET k == Position(table, rec.uid)
  IN IF k = 0 THEN Append(table, rec) ELSE [table EXCEPT ![k] = rec]

\* table.pop(uid)
Pop(table, uid) == SelectSeq(table, LAMBDA r : r.uid # uid)

\* bool(rrule): a rule with no key at all is an empty dict
RuleTruthy(rrule) ==
  rrule.present /\ (Len(rrule.FREQ) + Len(rrule.BYDAY) + Len(rrule.UNTIL) > 0)

\* lines 174-198: recurring_candidates after the component
ClassifyTable(table, component, ws, we) ==
  LET summary == Strip(component.SUMMARY)
      uid == Strip(component.UID)
      rrule == component.RRULE
      event_date == EventDate(component.DTSTART)
      until_vals == rrule.UNTIL
  IN IF Skipped(component) THEN table
     ELSE IF ~(RuleTruthy(rrule) /\ uid # "") THEN table
     ELSE IF \/ event_date > we
             \/ (Len(until_vals) > 0 /\ PlainDate(until_vals[1]) < ws)
     THEN table
     ELSE Put(table,
              [uid |-> uid,
               summary |-> summary,
               byday |-> rrule.BYDAY,
               exdates |-> {PlainDate(component.EXDATE[k]) :
                              k \in 1..Len(component.EXDATE)},
               recurrence_text |-> describe_recurrence(rrule)])

\* faulty variant: drops a candidate as soon as one of its days is covered
fully_covered_any(board, summary, byday) ==
  LET covered == {DayCode(day) : day \in {d \in DOMAIN board : InSeq(summary, board[d])}}
  IN Range(byday) \cap covered # {}

\* lines 201-206
fully_covered(board, summary, byday) ==
  LET covered == {DayCode(day) : day \in {d \in DOMAIN board : InSeq(summary, board[d])}}
  IN Range(byday) \subseteq covered

\* lines 209-211: the table after the Reconciler has looked at uid
ReconcileOne(table, board, uid) ==
  LET rec == table[Position(table, uid)]
  IN IF Len(rec.byday) > 0 /\ fully_covered(board, rec.summary, rec.byday)
     THEN Pop(table, uid)
     ELSE table

(***************************************************************************)
(* Recurrence Applier, lines 220-226.  The result of an offset is the      *)
(* board and whether events_by_day[weekday] raised KeyError.               *)
(***************************************************************************)
\* faulty variant: appends without looking for the summary in the bucket
ApplyDayNoDedup(board, rec, current_date) ==
  LET weekday == StrftimeA(current_date)
  IN IF DayCode(weekday) \in Range(rec.byday) /\ current_date \notin rec.exdates
     THEN IF weekday \notin DOMAIN board
          THEN [board |-> board, raised |-> TRUE]
          ELSE [board |-> [board EXCEPT ![weekday] = Append(@, rec.summary)],
                raised |-> FALSE]
     ELSE [board |-> board, raised |-> FALSE]

\* faulty variant: does not look at the exception dates
ApplyDayNoExdates(board, rec, current_date) ==
  LET weekday == StrftimeA(current_date)
  IN IF DayCode(weekday) \in Range(rec.byday)
     THEN IF weekday \notin DOMAIN board
          THEN [board |-> board, raised |-> TRUE]
          ELSE IF ~InSeq(rec.summary, board[weekday])
          THEN [board |-> [board EXCEPT ![weekday] = Append(@, rec.summary)],
                raised |-> FALSE]
          ELSE [board |-> board, raised |-> FALSE]
     ELSE [board |-> board, raised |-> FALSE]

\* lines 221-226 for one offset
ApplyDay(board, rec, current_date) ==
  LET weekday == StrftimeA(current_date)
  IN IF DayCode(weekday) \in Range(rec.byday) /\ current_date \notin rec.exdates
     THEN IF weekday \notin DOMAIN board
          THEN [board |-> board, raised |-> TRUE]
          ELSE IF ~InSeq(rec.summary, board[weekday])
          THEN [board |-> [board EXCEPT ![weekday] = Append(@, rec.summary)],
                raised |-> FALSE]
          ELSE [board |-> board, raised |-> FALSE]
     ELSE [board |-> board, raised |-> FALSE]

\* for offset in range(5), from offset on; stops at the first KeyError
RECURSIVE ApplyOffsets(_, _, _, _)
ApplyOffsets(board, rec, ws, offset) ==
  IF offset >= 5 THEN [board |-> board, raised |-> FALSE]
  ELSE LET r == ApplyDay(board, rec, ws + offset)
       IN IF r.raised THEN r ELSE ApplyOffsets(r.board, rec, ws, offset + 1)

\* faulty variant: falls back to the first candidate for a uid that is no key
LookupOrFirst(table, uid) ==
  IF Position(table, uid) # 0 THEN Position(table, uid)
  ELSE IF Len(table) > 0 THEN 1 ELSE 0

\* recurring_candidates.get(uid): the position of the record, 0 for None
Lookup(table, uid) == Position(table, uid)

\* lines 216-226 for one token
ApplyToken(board, table, uid, ws) ==
  LET k == Lookup(table, uid)
  IN IF k = 0 THEN [board |-> board, raised |-> FALSE]
     ELSE ApplyOffsets(board, table[k], ws, 0)

(***************************************************************************)
(* Response Assembler, lines 228-247.                                      *)
(***************************************************************************)
TimesheetSummary(board) ==
  [day \in DOMAIN board |->
     IF Len(board[day]) > 0 THEN "Attended " \o Join(board[day], ", ") ELSE ""]

CandidateList(table) ==
  [k \in 1..Len(table) |->
     [uid |-> table[k].uid, summary |-> table[k].summary,
      recurrence_text |-> table[k].recurrence_text, byday |-> table[k].byday]]

\* week_range keeps the two dates; their ISO text is not modelled
Response(board, table, ws, we, fin) ==
  IF Lower(fin) # "true"
  THEN [status |-> "ok", week_range |-> <<ws, we>>,
        timesheet_summary |-> TimesheetSummary(board),
        recurring_candidates |-> CandidateList(table)]
  ELSE [status |-> "ok", week_range |-> <<ws, we>>,
        timesheet_summary |-> TimesheetSummary(board)]

(***************************************************************************)
(* Inputs of a request.  With the first anchor (ordinal 7, a Sunday) the   *)
(* window is 8..12, Monday to Friday.                                      *)
(***************************************************************************)
SeqsUpTo(S, n) == UNION {[1..k -> S] : k \in 0..n}

Weekly(byday, until) == Rule(<<"WEEKLY">>, byday, until)

EventPool ==
  { \* an explicit meeting on Monday 8, naive local time
    VEvent("S", "", Naive(8, 600), NoRule, <<>>),
    \* 20:00 UTC on Tuesday 9 is 01:30 local time on Wednesday 10
    VEvent(" S ", "a", Aware(9, 1200, 0), NoRule, <<>>),
    \* weekly on Monday and Wednesday since ordinal 1, Monday 8 excepted
    VEvent("S", "a", OnDate(1), Weekly(<<"MO", "WE">>, <<>>), <<OnDate(8)>>),
    \* weekly on Wednesday since Wednesday 3, until ordinal 20
    VEvent("S", " b", Aware(3, 240, 0), Weekly(<<"WE">>, <<Aware(20, 0, 0)>>), <<>>),
    \* weekly on Wednesday, first held on Wednesday 10
    VEvent("S", "b", Naive(10, 600), Weekly(<<"WE">>, <<>>), <<>>),
    \* a uid that contains the separator; first held on Tuesday 9
    VEvent("T", "a||b", OnDate(9), Weekly(<<"TU", "TH">>, <<>>), <<>>),
    \* weekly on Friday and Saturday, Friday 12 excepted
    VEvent("T", "b", OnDate(6), Weekly(<<"FR", "SA">>, <<>>), <<Aware(12, 60, 0)>>),
    \* a monthly rule without BYDAY, first held on Monday 8
    VEvent("T", "a", Naive(8, 540), Rule(<<"MONTHLY">>, <<>>, <<>>), <<>>),
    \* a rule that ended on ordinal 5
    VEvent("S", "b", OnDate(1), Weekly(<<"MO">>, <<OnDate(5)>>), <<>>),
    \* a rule that starts on Monday 15
    VEvent("T", "a", OnDate(15), Rule(<<"DAILY">>, <<"MO">>, <<>>), <<>>),
    \* skipped: cancelled, blank summary, no DTSTART
    VEvent("Canceled: S", "b", OnDate(8), Weekly(<<"MO">>, <<>>), <<>>),
    VEvent("  ", "b", OnDate(8), Weekly(<<"MO">>, <<>>), <<>>),
    VEvent("S", "b", NoStart, Weekly(<<"MO">>, <<>>), <<>>) }

Calendars == SeqsUpTo(EventPool, MaxEvents)

AnchorDates == 7..(6 + NumAnchors)

TokenPool == {"", "a", "b"}

IncludeStrings == {Join(l, "||") : l \in SeqsUpTo(TokenPool, MaxTokens)}

FinalizeValues == {"false", "True"}

BucketNames == {"Monday", "Tuesday", "Wednesday", "Thursday", "Friday"}

(***************************************************************************)
(* generate_timesheet_v2 as a state machine.                               *)
(***************************************************************************)
VARIABLES
  cal,                     \* the VEVENT components of the parsed calendar
  sunday_date,             \* the anchor date parsed from week_sunday
  include_recurring_uids,  \* the form field, "" until line 214 reads it
  week_start, week_end,
  events_by_day,
  recurring_candidates,
  pc,                      \* classify, reconcile, apply, respond, done, error
  idx,                     \* position in the loop of the current phase
  keys,                    \* list(recurring_candidates.keys()) of line 208
  tokens,                  \* include_recurring_uids.split("||") of line 215
  response,
  helper_arg,              \* the argument of a helper called on its own
  helper_result            \* what the helper returned

vars ==
  <<cal, sunday_date, include_recurring_uids, week_start, week_end,
    events_by_day, recurring_candidates, pc, idx, keys, tokens, response,
    helper_arg, helper_result>>

NoResponse == [status |-> "none"]

\* lines 132-146
Init ==
  /\ cal \in Calendars
  /\ sunday_date \in AnchorDates
  /\ include_recurring_uids = ""
  /\ week_start = get_week_range_from_sunday(sunday_date)[1]
  /\ week_end = get_week_range_from_sunday(sunday_date)[2]
  /\ events_by_day = [day \in BucketNames |-> <<>>]
  /\ recurring_candidates = <<>>
  /\ pc = "classify"
  /\ idx = 1
  /\ keys = <<>>
  /\ tokens = <<>>
  /\ response = NoResponse
  /\ helper_arg = "none"
  /\ helper_result = "none"

\* lines 148-198: one iteration of the loop over cal.walk("VEVENT")
ClassifyEvent ==
  /\ pc = "classify"
  /\ idx <= Len(cal)
  /\ events_by_day' = ClassifyBoard(events_by_day, cal[idx], week_start, week_end)
  /\ recurring_candidates' =
       ClassifyTable(recurring_candidates, cal[idx], week_start, week_end)
  /\ idx' = idx + 1
  /\ UNCHANGED <<cal, sunday_date, include_recurring_uids, week_start, week_end,
                 pc, keys, tokens, response, helper_arg, helper_result>>

\* line 208: the loop over the components is over; the keys are listed
StartReconcile ==
  /\ pc = "classify"
  /\ idx > Len(cal)
  /\ keys' = Keys(recurring_candidates)
  /\ pc' = "reconcile"
  /\ idx' = 1
  /\ UNCHANGED <<cal, sunday_date, include_recurring_uids, week_start, week_end,
                 events_by_day, recurring_candidates, tokens, response,
                 helper_arg, helper_result>>

\* lines 209-211: one iteration of the loop over the listed keys
ReconcileCandidate ==
  /\ pc = "reconcile"
  /\ idx <= Len(keys)
  /\ recurring_candidates' =
       ReconcileOne(recurring_candidates, events_by_day, keys[idx])
  /\ idx' = idx + 1
  /\ UNCHANGED <<cal, sunday_date, include_recurring_uids, week_start, week_end,
                 events_by_day, pc, keys, tokens, response, helper_arg, helper_result>>

\* lines 214-215: the form field is read and split
StartApply ==
  /\ pc = "reconcile"
  /\ idx > Len(keys)
  /\ \E text \in IncludeStrings :
       /\ include_recurring_uids' = text
       /\ IF text # ""
          THEN /\ tokens' = Split(text, "||")
               /\ pc' = "apply"
          ELSE /\ tokens' = <<>>
               /\ pc' = "respond"
  /\ idx' = 1
  /\ UNCHANGED <<cal, sunday_date, week_start, week_end, events_by_day,
                 recurring_candidates, keys, response, helper_arg, helper_result>>

\* lines 216-226: one iteration of the loop over the tokens
ApplyUid ==
  /\ pc = "apply"
  /\ idx <= Len(tokens)
  /\ LET r == ApplyToken(events_by_day, recurring_candidates, tokens[idx], week_start)
     IN /\ events_by_day' = r.board
        /\ IF r.raised
           THEN /\ pc' = "error"
                /\ idx' = idx
                /\ response' = [status |-> "KeyError"]
           ELSE /\ pc' = IF idx = Len(tokens) THEN "respond" ELSE "apply"
                /\ idx' = idx + 1
                /\ response' = response
  /\ UNCHANGED <<cal, sunday_date, include_recurring_uids, week_start, week_end,
                 recurring_candidates, keys, tokens, helper_arg, helper_result>>

\* lines 228-247
Respond ==
  /\ pc = "respond"
  /\ \E fin \in FinalizeValues :
       response' = Response(events_by_day, recurring_candidates,
                            week_start, week_end, fin)
  /\ pc' = "done"
  /\ UNCHANGED <<cal, sunday_date, include_recurring_uids, week_start, week_end,
                 events_by_day, recurring_candidates, idx, keys, tokens,
                 helper_arg, helper_result>>

Next ==
  \/ ClassifyEvent
  \/ StartReconcile
  \/ ReconcileCandidate
  \/ StartApply
  \/ ApplyUid
  \/ Respond

Spec == Init /\ [][Next]_vars

(***************************************************************************)
(* The two helpers called on their own.                                    *)
(***************************************************************************)
PipelineIdle ==
  /\ cal = <<>>
  /\ sunday_date = 0
  /\ include_recurring_uids = ""
  /\ week_start = 0
  /\ week_end = 0
  /\ events_by_day = [day \in BucketNames |-> <<>>]
  /\ recurring_candidates = <<>>
  /\ idx = 1
  /\ keys = <<>>
  /\ tokens = <<>>
  /\ response = NoResponse

pipeline_vars ==
  <<cal, sunday_date, include_recurring_uids, week_start, week_end,
    events_by_day, recurring_candidates, idx, keys, tokens, response>>

WindowAnchors == 1..NumWindowAnchors

InitWindow ==
  /\ PipelineIdle
  /\ pc = "call"
  /\ helper_arg \in WindowAnchors
  /\ helper_result = <<>>

CallWeekRange ==
  /\ pc = "call"
  /\ helper_result' = get_week_range_from_sunday(helper_arg)
  /\ pc' = "returned"
  /\ UNCHANGED <<pipeline_vars, helper_arg>>

SpecWindow == InitWindow /\ [][CallWeekRange]_vars

ByDayCodes == {"MO", "TU", "WE", "TH", "FR", "SA", "SU", "1MO"}

Workweek == <<"MO", "TU", "WE", "TH", "FR">>

\* the work week with an unrecognized code put in at position k (0: none)
WorkweekWith(k) ==
  SubSeq(Workweek, 1, k) \o (IF k = 0 THEN <<>> ELSE <<"1MO">>)
    \o SubSeq(Workweek, k + 1, 5)

ByDayLists ==
  SeqsUpTo(ByDayCodes, MaxByday)
    \cup {WorkweekWith(k) : k \in 0..5}
    \cup {<<"FR", "TH", "WE", "TU", "MO">>, <<"MO", "TU", "WE", "TH", "FR", "SA">>}

FreqLists == {<<>>, <<"DAILY">>, <<"WEEKLY">>, <<"MONTHLY">>, <<"WEEKLY", "DAILY">>}

RuleInputs == {Rule(f, b, <<>>) : f \in FreqLists, b \in ByDayLists}

InitDescribe ==
  /\ PipelineIdle
  /\ pc = "call"
  /\ helper_arg \in RuleInputs
  /\ helper_result = ""

CallDescribe ==
  /\ pc = "call"
  /\ helper_result' = describe_recurrence(helper_arg)
  /\ pc' = "returned"
  /\ UNCHANGED <<pipeline_vars, helper_arg>>

SpecDescribe == InitDescribe /\ [][CallDescribe]_vars

(***************************************************************************)
(* Properties of get_week_range_from_sunday (under SpecWindow).            *)
(***************************************************************************)
\* the weekday names of the days first..last
DayNamesOf(first, last) == [k \in 1..(last - first + 1) |-> StrftimeA(first + k - 1)]

WorkweekNames == <<"Monday", "Tuesday", "Wednesday", "Thursday", "Friday">>

\* C4 as stated: for every anchor A the result is (A+1, A+5) and the window
\* is the five days Monday, Tuesday, Wednesday, Thursday, Friday in order.
C4_AsStated ==
  pc = "returned" =>
    /\ helper_result = <<helper_arg + 1, helper_arg + 5>>
    /\ DayNamesOf(helper_result[1], helper_result[2]) = WorkweekNames

\* C4 amended: for every anchor A the result is (A+1, A+5), a window of
\* exactly five consecutive days; the days are Monday..Friday in order exactly
\* when A is a Sunday.
C4_WeekWindow ==
  pc = "returned" =>
    /\ helper_result = <<helper_arg + 1, helper_arg + 5>>
    /\ Len(DayNamesOf(helper_result[1], helper_result[2])) = 5
    /\ (DayNamesOf(helper_result[1], helper_result[2]) = WorkweekNames)
         <=> (StrftimeA(helper_arg) = "Sunday")

\* a Sunday anchor has been turned into its window
C4_Witness ==
  /\ pc = "returned"
  /\ StrftimeA(helper_arg) = "Sunday"
  /\ helper_result[2] - helper_result[1] = 4

(***************************************************************************)
(* Properties of describe_recurrence (under SpecDescribe).                 *)
(***************************************************************************)
FreqIs(rrule, value) == Len(rrule.FREQ) > 0 /\ rrule.FREQ[1] = value

DayNameOfCode ==
  [code \in {"MO", "TU", "WE", "TH", "FR", "SA", "SU"} |->
     CASE code = "MO" -> "Monday" [] code = "TU" -> "Tuesday"
       [] code = "WE" -> "Wednesday" [] code = "TH" -> "Thursday"
       [] code = "FR" -> "Friday" [] code = "SA" -> "Saturday"
       [] code = "SU" -> "Sunday"]

\* the names of the recognized codes of a BYDAY list, in listed order
RecognizedNames(byday) ==
  LET known == SelectSeq(byday, LAMBDA c : c \in DOMAIN DayNameOfCode)
  IN [k \in 1..Len(known) |-> DayNameOfCode[known[k]]]

RECURSIVE CommaList(_)
CommaList(names) ==
  IF Len(names) = 0 THEN ""
  ELSE IF Len(names) = 1 THEN names[1]
  ELSE names[1] \o ", " \o CommaList(Tail(names))

\* C8 as stated: the rules are matched on the BYDAY list of the rule: exactly
\* [MO,TU,WE,TH,FR] gives "Occurs every weekday", exactly one entry gives
\* "Occurs every <DayName>", several entries give the list of the recognized
\* names, anything that is neither DAILY nor WEEKLY with BYDAY gives
\* "Recurring meeting".
C8_AsStated ==
  pc = "returned" =>
    LET byday == helper_arg.BYDAY
    IN IF FreqIs(helper_arg, "DAILY") THEN helper_result = "Occurs every day"
       ELSE IF FreqIs(helper_arg, "WEEKLY") /\ byday = Workweek
       THEN helper_result = "Occurs every weekday"
       ELSE IF FreqIs(helper_arg, "WEEKLY") /\ Len(byday) = 1
       THEN \E code \in DOMAIN DayNameOfCode :
              helper_result = "Occurs every " \o DayNameOfCode[code]
       ELSE IF FreqIs(helper_arg, "WEEKLY") /\ Len(byday) > 1
       THEN helper_result = "Occurs every " \o CommaList(RecognizedNames(byday))
       ELSE helper_result = "Recurring meeting"

\* C8 amended: the unrecognized codes are dropped first and the WEEKLY rules
\* are matched on what is left: the names Monday..Friday in that order give
\* "Occurs every weekday", exactly one name gives "Occurs every <DayName>",
\* any other number of names (none included) gives "Occurs every " followed
\* by the names joined by ", "; DAILY comes first and everything else,
\* WEEKLY without BYDAY included, gives "Recurring meeting".
C8_Describe ==
  pc = "returned" =>
    LET names == RecognizedNames(helper_arg.BYDAY)
    IN IF FreqIs(helper_arg, "DAILY") THEN helper_result = "Occurs every day"
       ELSE IF FreqIs(helper_arg, "WEEKLY") /\ Len(helper_arg.BYDAY) > 0
       THEN /\ names = WorkweekNames => helper_result = "Occurs every weekday"
            /\ Len(names) = 1 => helper_result = "Occurs every " \o names[1]
            /\ names # WorkweekNames /\ Len(names) # 1 =>
                 helper_result = "Occurs every " \o CommaList(names)
       ELSE helper_result = "Recurring meeting"

\* a weekly rule whose work week carries an unrecognized code was described
C8_Witness ==
  /\ pc = "returned"
  /\ FreqIs(helper_arg, "WEEKLY")
  /\ helper_arg.BYDAY = <<"MO", "TU", "WE", "1MO", "TH", "FR">>
  /\ helper_result = "Occurs every weekday"

(***************************************************************************)
(* Properties of generate_timesheet_v2 (under Spec).                       *)
(***************************************************************************)
\* DAY_MAP of lines 112-118
DAY_MAP ==
  [MO |-> "Monday", TU |-> "Tuesday", WE |-> "Wednesday", TH |-> "Thursday",
   FR |-> "Friday"]

WindowDates == week_start..(week_start + 4)

\* the summary is in the bucket of the weekday of date d
Attended(summary, d) ==
  /\ StrftimeA(d) \in DOMAIN events_by_day
  /\ InSeq(summary, events_by_day[StrftimeA(d)])

\* the tokens whose loop iteration is over
AppliedCount == IF pc \in {"apply", "respond", "done", "error"} THEN idx - 1 ELSE 0

\* C1: no weekday bucket contains a summary twice, after classification and
\* after the Recurrence Applier, for every calendar, week and token list.
C1_NoDuplicates ==
  \A day \in DOMAIN events_by_day :
    \A m, n \in 1..Len(events_by_day[day]) :
      m # n => events_by_day[day][m] # events_by_day[day][n]

\* a uid given twice was applied, and its summary is in a bucket
C1_Witness ==
  /\ pc = "done"
  /\ Len(tokens) = 2
  /\ tokens[1] = tokens[2]
  /\ Position(recurring_candidates, tokens[1]) # 0
  /\ \E d \in WindowDates :
       Attended(recurring_candidates[Position(recurring_candidates, tokens[1])].summary, d)

\* the codes of the days whose bucket contains the summary
CoveredCodes(summary) ==
  {code \in DOMAIN DAY_MAP : InSeq(summary, events_by_day[DAY_MAP[code]])}

ReconcileStep == pc = "reconcile" /\ idx <= Len(keys) /\ idx' = idx + 1

\* C2 as stated: the Reconciler removes a candidate if and only if its BYDAY
\* set is a subset of the codes of the days that already hold its summary.
C2_AsStated ==
  [][ReconcileStep =>
       LET rec == recurring_candidates[Position(recurring_candidates, keys[idx])]
       IN (Position(recurring_candidates', keys[idx]) = 0)
            <=> (Range(rec.byday) \subseteq CoveredCodes(rec.summary))]_vars

\* C2 amended: the Reconciler removes a candidate if and only if its BYDAY is
\* not empty and is a subset of the codes of the days that already hold its
\* summary; a candidate without BYDAY always stays.
C2_SubsetLaw ==
  [][ReconcileStep =>
       LET rec == recurring_candidates[Position(recurring_candidates, keys[idx])]
       IN /\ (Position(recurring_candidates', keys[idx]) = 0)
               <=> /\ Len(rec.byday) > 0
                   /\ Range(rec.byday) \subseteq CoveredCodes(rec.summary)
          /\ \A k \in 1..Len(recurring_candidates) :
               recurring_candidates[k].uid # keys[idx] =>
                 InSeq(recurring_candidates[k], recurring_candidates')]_vars

\* the Reconciler has removed a candidate and kept another one
C2_Witness ==
  /\ pc = "reconcile"
  /\ idx > Len(keys)
  /\ \E k \in 1..Len(keys) : Position(recurring_candidates, keys[k]) = 0
  /\ \E k \in 1..Len(keys) : Position(recurring_candidates, keys[k]) # 0

\* for every applied token that is a key: the property P of its candidate
ForAppliedCandidates(P(_)) ==
  \A k \in 1..AppliedCount :
    Position(recurring_candidates, tokens[k]) # 0 =>
      P(recurring_candidates[Position(recurring_candidates, tokens[k])])

PlacedOnRuleDays(rec) ==
  \A d \in WindowDates :
    DayCode(StrftimeA(d)) \in Range(rec.byday) /\ d \notin rec.exdates =>
      Attended(rec.summary, d)

AbsentOnExdates(rec) ==
  \A d \in WindowDates : d \in rec.exdates => ~Attended(rec.summary, d)

\* C3 as stated: after the Applier has run with a uid of the table, the
\* summary is in the bucket of every window date whose code is in BYDAY and
\* which is no exception date, and in the bucket of no exception date.
C3_AsStated ==
  ForAppliedCandidates(LAMBDA rec : PlacedOnRuleDays(rec) /\ AbsentOnExdates(rec))

ApplyKnownStep ==
  /\ pc = "apply"
  /\ idx <= Len(tokens)
  /\ Position(recurring_candidates, tokens[idx]) # 0

\* C3 amended: after the Applier has run with a uid of the table, the summary
\* is in the bucket of every window date whose code is in BYDAY and which is
\* no exception date; and applying the uid leaves the bucket of every
\* exception date as it was (the summary is there afterwards only if it was
\* there before).
C3_ApplyExclusion ==
  /\ [](ForAppliedCandidates(PlacedOnRuleDays))
  /\ [][ApplyKnownStep =>
          LET rec == recurring_candidates[Position(recurring_candidates, tokens[idx])]
          IN \A d \in WindowDates :
               d \in rec.exdates /\ StrftimeA(d) \in DOMAIN events_by_day =>
                 events_by_day'[StrftimeA(d)] = events_by_day[StrftimeA(d)]]_vars

\* a candidate was applied: it sits on a rule day, and one of its exception
\* dates holds its summary from another source
C3_Witness ==
  /\ pc = "done"
  /\ \E k \in 1..AppliedCount :
       /\ Position(recurring_candidates, tokens[k]) # 0
       /\ LET rec == recurring_candidates[Position(recurring_candidates, tokens[k])]
          IN /\ \E d \in WindowDates :
                  /\ DayCode(StrftimeA(d)) \in Range(rec.byday)
                  /\ d \notin rec.exdates
                  /\ Attended(rec.summary, d)
             /\ \E d \in WindowDates : d \in rec.exdates /\ Attended(rec.summary, d)

\* text is a list of at most MaxTokens tokens joined by "||", uid among them
JoinedWith(uid, text) ==
  \E l \in SeqsUpTo(TokenPool \cup {uid}, MaxTokens) :
    uid \in Range(l) /\ Join(l, "||") = text

\* C5: every uid listed in recurring_candidates can be materialized by a call
\* with the same calendar and week and the uid as a token of
\* include_recurring_uids joined by "||": the response then shows the summary
\* on every window weekday whose code is in BYDAY and whose date is no
\* exception date.
C5_RoundTrip ==
  pc = "done" =>
    \A k \in 1..Len(recurring_candidates) :
      JoinedWith(recurring_candidates[k].uid, include_recurring_uids) =>
        PlacedOnRuleDays(recurring_candidates[k])

(***************************************************************************)
(* What a calendar and a week say the pending candidates are, without the  *)
(* steps of the pipeline and without include_recurring_uids.               *)
(***************************************************************************)
\* what each event of the pool says, whatever the week
Facts ==
  [e \in EventPool |->
     [skipped |-> Skipped(e),
      uid |-> Strip(e.UID),
      summary |-> Strip(e.SUMMARY),
      date |-> EventDate(e.DTSTART),
      code |-> DayCode(StrftimeA(EventDate(e.DTSTART))),
      workday |-> StrftimeA(EventDate(e.DTSTART)) \in BucketNames,
      recurring |-> RuleTruthy(e.RRULE),
      text |-> describe_recurrence(e.RRULE)]]

Registers(component) ==
  LET f == Facts[component]
  IN /\ ~f.skipped
     /\ f.uid # ""
     /\ f.recurring
     /\ f.date <= week_end
     /\ \/ Len(component.RRULE.UNTIL) = 0
        \/ component.RRULE.UNTIL[1].day >= week_start

\* the summary and the day code an event of the calendar puts on the board
Explicit(component) == <<Facts[component].summary, Facts[component].code>>

OnBoard(component) ==
  LET f == Facts[component]
  IN ~f.skipped /\ f.date \in WindowDates /\ f.workday

\* an event of the calendar puts the summary on the day of that code
ExplicitOn(summary, code) ==
  \E n \in 1..Len(cal) : OnBoard(cal[n]) /\ Explicit(cal[n]) = <<summary, code>>

\* the listed candidates: one per uid, in the order in which the uids were
\* first registered, each with the data of its last registration, unless
\* every BYDAY code of a non-empty BYDAY has the summary on the board
PendingList ==
  LET N == Len(cal)
      reg == [n \in 1..N |-> Registers(cal[n])]
      uid == [n \in 1..N |-> Facts[cal[n]].uid]
      explicit == {Explicit(cal[n]) : n \in {m \in 1..N : OnBoard(cal[m])}}
      first == {n \in 1..N : reg[n] /\ \A j \in 1..(n - 1) : reg[j] => uid[j] # uid[n]}
      last == [m \in first |->
                 CHOOSE n \in m..N :
                   /\ reg[n] /\ uid[n] = uid[m]
                   /\ \A j \in (n + 1)..N : reg[j] => uid[j] # uid[m]]
      stays == {m \in first :
                  \/ Len(cal[last[m]].RRULE.BYDAY) = 0
                  \/ \E code \in Range(cal[last[m]].RRULE.BYDAY) :
                       <<Facts[cal[last[m]]].summary, code>> \notin explicit}
      nth == [k \in 1..Cardinality(stays) |->
                CHOOSE m \in stays : Cardinality({j \in stays : j <= m}) = k]
  IN [k \in 1..Cardinality(stays) |->
        [uid |-> uid[nth[k]],
         summary |-> Facts[cal[last[nth[k]]]].summary,
         recurrence_text |-> Facts[cal[last[nth[k]]]].text,
         byday |-> cal[last[nth[k]]].RRULE.BYDAY]]

\* C6: the Applier never changes the candidate table: the list of a response
\* that is not finalized is the one the calendar and the week determine,
\* whatever include_recurring_uids is, so an applied candidate is still
\* listed.
C6_ListIndependent ==
  /\ pc \in {"apply", "respond", "done", "error"} =>
       CandidateList(recurring_candidates) = PendingList
  /\ pc = "done" /\ "recurring_candidates" \in DOMAIN response =>
       response.recurring_candidates = PendingList

\* a candidate was applied, is on the board and is still listed
C6_Witness ==
  /\ pc = "done"
  /\ "recurring_candidates" \in DOMAIN response
  /\ \E k \in 1..Len(response.recurring_candidates) :
       /\ InSeq(response.recurring_candidates[k].uid, tokens)
       /\ \E d \in WindowDates : Attended(response.recurring_candidates[k].summary, d)
       /\ ~\E code \in DOMAIN DAY_MAP :
             ExplicitOn(response.recurring_candidates[k].summary, code)

\* C7: a token that is no key of the table after reconciliation changes no
\* bucket and no candidate, raises nothing, and the loop goes on with the
\* next token.
C7_UnknownUid ==
  [][pc = "apply" /\ idx <= Len(tokens)
       /\ Position(recurring_candidates, tokens[idx]) = 0
     => /\ events_by_day' = events_by_day
        /\ recurring_candidates' = recurring_candidates
        /\ pc' # "error"
        /\ response' = NoResponse
        /\ idx' = idx + 1
        /\ (idx < Len(tokens) => pc' = "apply")
        /\ (idx = Len(tokens) => pc' = "respond")]_vars

\* an empty token was passed over and the uid after it was applied
C7_Witness ==
  /\ pc = "done"
  /\ Len(tokens) = 2
  /\ tokens[1] = ""
  /\ Position(recurring_candidates, tokens[2]) # 0
  /\ \E d \in WindowDates :
       /\ Attended(recurring_candidates[Position(recurring_candidates, tokens[2])].summary, d)
       /\ ~\E code \in DOMAIN DAY_MAP :
             ExplicitOn(recurring_candidates[Position(recurring_candidates, tokens[2])].summary, code)

\* C9: the pipeline never aborts: whatever the anchor date, the BYDAY codes
\* and the token list, the Applier only reaches the five existing buckets and
\* the request ends with a response.
C9_NeverAborts ==
  /\ pc # "error"
  /\ response.status \in {"none", "ok"}

ExplicitBasis(summary, day) ==
  \E n \in 1..Len(cal) :
    /\ Strip(cal[n].SUMMARY) = summary
    /\ summary # ""
    /\ ~StartsWith(Lower(summary), "canceled")
    /\ cal[n].DTSTART.kind # "none"
    /\ EventDate(cal[n].DTSTART) \in WindowDates
    /\ StrftimeA(EventDate(cal[n].DTSTART)) = day

RecurringBasis(summary, day) ==
  \E k \in 1..Len(recurring_candidates) :
    /\ recurring_candidates[k].summary = summary
    /\ include_recurring_uids # ""
    /\ InSeq(recurring_candidates[k].uid, Split(include_recurring_uids, "||"))
    /\ pc \in {"apply", "respond", "done", "error"}
    /\ DayCode(day) \in Range(recurring_candidates[k].byday)
    /\ \E d \in WindowDates : StrftimeA(d) = day /\ d \notin recurring_candidates[k].exdates

\* C10: every summary in a bucket is the summary of an event that is not
\* skipped and whose local date is that weekday of the window, or of a
\* candidate of the table whose uid is a token and whose rule puts it on that
\* day; with an empty include_recurring_uids only the first is possible.
C10_Basis ==
  \A day \in DOMAIN events_by_day :
    \A n \in 1..Len(events_by_day[day]) :
      /\ ExplicitBasis(events_by_day[day][n], day)
           \/ RecurringBasis(events_by_day[day][n], day)
      /\ include_recurring_uids = "" => ExplicitBasis(events_by_day[day][n], day)

\* a summary is on a day by the rule of an applied candidate alone
C10_Witness ==
  /\ pc = "done"
  /\ \E day \in DOMAIN events_by_day :
       \E n \in 1..Len(events_by_day[day]) :
         /\ RecurringBasis(events_by_day[day][n], day)
         /\ ~ExplicitBasis(events_by_day[day][n], day)

====
